---- MODULE Spec2Model ----
(***************************************************************************)
(* Model of metric_collector/collector.py (class MetricCollector): the     *)
(* sample -> evaluate -> transmit loop, its retry policy, the alert        *)
(* cooldown registry and the signal-driven shutdown.                       *)
(*                                                                         *)
(* Units.  Time is in whole seconds.  Percentages are integers in          *)
(* hundredths of a percent (85.0 % is 8500), thresholds are the whole      *)
(* percents of the configuration file (80 means 80 %).                     *)
(*                                                                         *)
(* The specifications share the state:                                     *)
(*   Spec          the service: run() driving send_metrics() cycle by      *)
(*                 cycle                                                   *)
(*   SpecAlerts    check_alerts() called directly with caller-built        *)
(*                 snapshots, as tests/test_collector.py does              *)
(*   SpecChannels  the same with alert channels that can fail              *)
(*   SpecGate      the collect -> check_alerts gate of send_metrics on a   *)
(*                 given snapshot, alerts enabled or disabled              *)
(*   SpecCollect   collect_metrics() called on its own                     *)
(*   SpecFaults    the service on a host whose hostname lookup can fail    *)
(*                 (SpecFaultsFair: with the progress of the program)      *)
(*   SpecStartup   the constructor on a configuration file, then run()     *)
(***************************************************************************)
EXTENDS Integers, Sequences, FiniteSets, TLC

VARIABLES
    config,            \* self.config, fixed after __init__
    running,           \* self.running
    alert_cooldown,    \* self.alert_cooldown: cooldown key -> time of last fire
    now,               \* the wall clock (time.time / datetime.utcnow)
    pc,                \* position of the service inside run / send_metrics
    attempt,           \* send_metrics: the for-loop variable
    metrics,           \* send_metrics: the local `metrics`
    start_time,        \* run: the local start_time of the cycle
    result,            \* what send_metrics returned: "True", "False" ("None": not yet)
    script,            \* how the sink answers the 1st, 2nd, ... POST of this call
    posts,             \* POSTs issued by the current send_metrics call
    firstSent,         \* payload of the first POST of the current call
    lastSent,          \* payload of the latest POST of the current call
    lastOutcome,       \* what the latest POST did
    response,          \* the latest response of the sink in this call (None: none)
    lastLog,           \* the log record written for the latest POST
    collects,          \* collect_metrics calls made by the current call
    alertRuns,         \* check_alerts calls made by the current call
    sleeps,            \* retry delays slept by the current call
    alerts_triggered,  \* check_alerts: the messages handed to _send_alert
    dispatched,        \* the messages of the latest check_alerts that fired
    evalAt,            \* the time of the latest check_alerts call
    evalOf,            \* the snapshot of the latest check_alerts call
    refired,           \* the messages of `dispatched` whose key had fired before
    channelCalls,      \* the channel calls of the latest check_alerts call
    undelivered,       \* the messages whose latest fire failed on every channel
    config_file,       \* the configuration file the constructor is given
    host,              \* collect_metrics called on its own: what the providers do
    faults             \* whether the hostname lookup of this host can fail

vars == <<config, running, alert_cooldown, now, pc, attempt, metrics,
          start_time, result, script, posts, firstSent, lastSent,
          lastOutcome, response, lastLog, collects, alertRuns, sleeps, alerts_triggered,
          dispatched, evalAt, evalOf, refired, channelCalls, undelivered, config_file, host, faults>>

sendVars == <<attempt, metrics, result, script, posts, firstSent, lastSent,
              lastOutcome, response, lastLog, collects, alertRuns, sleeps>>

alertVars == <<alert_cooldown, alerts_triggered, dispatched, evalAt, evalOf,
               refired, channelCalls, undelivered>>

envVars == <<config_file, host, faults>>

----------------------------------------------------------------------------
(* Bounds of the exploration *)

MaxRetries == 3
MaxTime == 31
MaxMinutes == 4
MaxPartitions == 2
cooldown_minutes == 2

(* Program constants and the configuration of tests/test_collector.py *)

retry_delay == 5
post_timeout == 10
interval_seconds == 30
SecondsPerMinute == 60
threshold_cpu == 80
threshold_memory == 85
threshold_disk == 90
threshold_swap == 50

thresholds ==
    [cpu |-> threshold_cpu, memory |-> threshold_memory,
     disk |-> threshold_disk, swap |-> threshold_swap]

hostname == "host1"

None == [py |-> "None"]

PyList(items) == [py |-> "list", items |-> items]

IsList(x) == "py" \in DOMAIN x /\ x.py = "list"

\* dict.get(key, default)
Get(d, key, default) == IF key \in DOMAIN d THEN d[key] ELSE default

Max(a, b) == IF a >= b THEN a ELSE b

Range(s) == {s[i] : i \in DOMAIN s}

----------------------------------------------------------------------------
(* collect_metrics *)

CpuSampleSeconds == 1

ExcludedFsTypesWithoutTmpfs == {"devtmpfs", "squashfs", "overlay"}

\* the filesystem types the disk loop skips
ExcludedFsTypes == {"tmpfs", "devtmpfs", "squashfs", "overlay"}

PercentUsedTruncated(used, total) ==
    IF total > 0 THEN (used * 10000) \div total ELSE 0

\* round(used / total * 100, 2) if total > 0 else 0, in hundredths of a percent:
\* the nearest hundredth.  On an exact tie the float expression gives one of
\* the two neighbours, depending on the rounding of the division (the even one
\* here); the sampled partitions have no tie.
PercentUsed(used, total) ==
    IF total > 0
    THEN LET n == used * 10000
             q == n \div total
             r == n % total
         IN  IF 2 * r < total THEN q
             ELSE IF 2 * r > total THEN q + 1
             ELSE IF q % 2 = 0 THEN q ELSE q + 1
    ELSE 0

filesystem_data(partition) ==
    [device |-> partition.device,
     mountpoint |-> partition.mountpoint,
     filesystem_type |-> partition.fstype,
     total_bytes |-> partition.total,
     used_bytes |-> partition.used,
     percent_used |-> PercentUsed(partition.used, partition.total)]

\* the exceptions the handler of the disk loop catches
CaughtByDiskLoop == {"PermissionError", "OSError"}

RECURSIVE disk_data_stop_at_error(_)
disk_data_stop_at_error(partitions) ==
    IF partitions = <<>> THEN <<>>
    ELSE LET p == Head(partitions)
         IN  IF p.fstype \in ExcludedFsTypes
             THEN disk_data_stop_at_error(Tail(partitions))
             ELSE IF p.error # "none" THEN <<>>
             ELSE <<filesystem_data(p)>>
                  \o disk_data_stop_at_error(Tail(partitions))

\* the loop over psutil.disk_partitions(): excluded types are skipped before
\* disk_usage is called, a filesystem whose disk_usage raises is skipped by
\* the handler (partition.error: what disk_usage raises there, or "none")
RECURSIVE disk_data(_)
disk_data(partitions) ==
    IF partitions = <<>> THEN <<>>
    ELSE LET p == Head(partitions)
             rest == disk_data(Tail(partitions))
         IN  IF p.fstype \in ExcludedFsTypes THEN rest
             ELSE IF p.error # "none" THEN rest
             ELSE <<filesystem_data(p)>> \o rest

\* a disk_usage failure the handler of the disk loop does not catch
DiskLoopRaises(partitions) ==
    \E i \in DOMAIN partitions :
        /\ partitions[i].fstype \notin ExcludedFsTypes
        /\ partitions[i].error \notin CaughtByDiskLoop \cup {"none"}

TotalFailureWithNetwork(h) ==
    \/ h.raises \in {"cpu", "memory", "swap", "disk", "network"}
    \/ DiskLoopRaises(h.partitions)

\* the failures that reach the handler of the outer try: h.raises names the
\* provider call that raises during this call ("none": no call raises)
TotalFailure(h) ==
    \/ h.raises \in {"cpu", "memory", "swap", "disk"}
    \/ DiskLoopRaises(h.partitions)

\* the hostname lookup on entry is outside the try: its exception leaves the call
Raised == [raised |-> "OSError"]

IsRaise(x) == "raised" \in DOMAIN x

error_snapshot_with_cpu(h, t) ==
    [timestamp |-> t,
     hostname |-> hostname,
     collection_duration_ms |-> IF h.raises = "cpu" THEN 0
                                ELSE 1000 * CpuSampleSeconds,
     cpu |-> [overall_percent |-> h.cpu],
     error |-> [type |-> "Exception"],
     status |-> "error"]

\* the snapshot returned by the handler of the outer try
error_snapshot(h, t) ==
    [timestamp |-> t,
     hostname |-> hostname,
     collection_duration_ms |-> IF h.raises = "cpu" THEN 0
                                ELSE 1000 * CpuSampleSeconds,
     error |-> [type |-> "Exception"],
     status |-> "error"]

\* h: what the providers do during this call; t: the clock on entry
collect_metrics(h, t) ==
    IF h.raises = "hostname" THEN Raised
    ELSE IF TotalFailure(h) THEN error_snapshot(h, t)
    ELSE LET base ==
                 [timestamp |-> t,
                  hostname |-> hostname,
                  collection_duration_ms |-> 1000 * CpuSampleSeconds,
                  cpu |-> [overall_percent |-> h.cpu],
                  memory |-> [percent_used |-> h.memory],
                  swap |-> [percent_used |-> h.swap],
                  disk |-> [filesystems |-> PyList(disk_data(h.partitions)),
                            io_stats |-> IF h.raises = "disk_io" THEN None
                                         ELSE [read_count |-> 0]]]
         IN  IF config.include_network /\ h.raises # "network"
             THEN [f \in DOMAIN base \cup {"network"} |->
                      IF f = "network" THEN [bytes_sent |-> 0] ELSE base[f]]
             ELSE base

\* time the call takes: cpu_percent(interval=1) blocks for the interval, and
\* the network counters are read after the metrics dict (and the duration in
\* it) is built
collect_seconds(h) ==
    IF h.raises \in {"hostname", "cpu"} THEN 0
    ELSE IF TotalFailure(h) \/ ~config.include_network THEN CpuSampleSeconds
    ELSE CpuSampleSeconds + h.network_seconds

IsErrorSnapshotNever(m) == FALSE

\* `metrics.get('error')`: the error snapshot carries a non-empty dict
IsErrorSnapshot(m) == "error" \in DOMAIN m

----------------------------------------------------------------------------
(* check_alerts and _send_alert *)

\* f"{value:.1f}": tenths of a percent
Fmt1(v) == (v + 5) \div 10

\* the alert text, by its variable parts
Message(family, target, value, threshold) ==
    [family |-> family, target |-> target, shown |-> Fmt1(value),
     threshold |-> threshold]

ExceedsOrEqual(value, threshold) == value >= threshold * 100

\* value > threshold, the value in hundredths and the threshold in percents
Exceeds(value, threshold) == value > threshold * 100

FamilyAlert(m, family) ==
    IF family \in DOMAIN thresholds /\ family \in DOMAIN m
    THEN LET percent == Get(m[family], "percent", 0)
         IN  IF Exceeds(percent, thresholds[family])
             THEN <<Message(family, "", percent, thresholds[family])>>
             ELSE <<>>
    ELSE <<>>

\* `for disk in metrics['disk']`: a list yields its elements; a dict yields
\* its keys, which are str and fail the isinstance(disk, dict) test
DiskEntries(d) == IF IsList(d) THEN d.items ELSE <<>>

RECURSIVE DiskAlerts(_)
DiskAlerts(entries) ==
    IF entries = <<>> THEN <<>>
    ELSE LET disk == Head(entries)
             rest == DiskAlerts(Tail(entries))
         IN  IF "percent" \in DOMAIN disk /\ Exceeds(disk.percent, thresholds.disk)
             THEN <<Message("disk", Get(disk, "mountpoint", "unknown"),
                            disk.percent, thresholds.disk)>> \o rest
             ELSE rest

\* the list alerts_triggered that check_alerts builds
check_alerts(m) ==
    IF ~config.alerts_enabled THEN <<>>
    ELSE FamilyAlert(m, "cpu")
         \o FamilyAlert(m, "memory")
         \o (IF "disk" \in DOMAIN thresholds /\ "disk" \in DOMAIN m
             THEN DiskAlerts(DiskEntries(m.disk)) ELSE <<>>)
         \o FamilyAlert(m, "swap")

\* hash(message): equal texts share a key, different texts do not
cooldown_key(message) == message

CooldownSeconds == cooldown_minutes * SecondsPerMinute

InCooldownInclusive(cd, key, t) ==
    key \in DOMAIN cd /\ t - cd[key] <= CooldownSeconds

InCooldownForever(cd, key, t) == key \in DOMAIN cd

\* the early return of _send_alert
InCooldown(cd, key, t) ==
    key \in DOMAIN cd /\ t - cd[key] < CooldownSeconds

StampOnlyKey(cd, key, t) == [k \in {key} |-> t]

StampEvery(cd, key, t) == [k \in DOMAIN cd \cup {key} |-> t]

\* self.alert_cooldown[cooldown_key] = current_time
Stamp(cd, key, t) ==
    [k \in DOMAIN cd \cup {key} |-> IF k = key THEN t ELSE cd[k]]

SuppressAndRestamp(st, key, t) == [st EXCEPT !.cd = Stamp(st.cd, key, t)]

\* `return  # Still in cooldown period`: nothing is written, logged or sent
Suppress(st, key, t) == st

\* what _send_slack_alert can do: return (sent, or no webhook configured),
\* or raise out of requests.post / raise_for_status
SlackOutcomes == {"ok", "RequestException"}

\* the body of the try for one channel: 'slack' calls the webhook, 'email'
\* only logs, 'log' and any other name do nothing
channel_call(channel, slack) == IF channel = "slack" THEN slack ELSE "ok"

CaughtByChannelHandlerNone(e) == FALSE

\* `except Exception` around each channel
CaughtByChannelHandler(e) == TRUE

NoCalls == [calls |-> <<>>, raised |-> FALSE]

\* the outcomes the webhook call can have under this configuration
SlackOutcomesNow ==
    IF "slack" \in Range(config.channels) THEN SlackOutcomes ELSE {"ok"}

\* `for channel in alert_channels` for one message: the calls made, and
\* whether an exception leaves the loop
RECURSIVE dispatch(_, _, _)
dispatch(message, channels, slack) ==
    IF channels = <<>> THEN NoCalls
    ELSE LET outcome == channel_call(Head(channels), slack)
             call == <<[message |-> message, channel |-> Head(channels),
                        outcome |-> outcome]>>
         IN  IF outcome # "ok" /\ ~CaughtByChannelHandler(outcome)
             THEN [calls |-> call, raised |-> TRUE]
             ELSE LET rest == dispatch(message, Tail(channels), slack)
                  IN  [calls |-> call \o rest.calls, raised |-> rest.raised]

\* no channel call of this fire returned normally
AllFailed(calls) ==
    calls # <<>> /\ \A i \in DOMAIN calls : calls[i].outcome # "ok"

StampOnSuccess(cd, key, t, failed) == IF failed THEN cd ELSE Stamp(cd, key, t)

\* alert_cooldown[cooldown_key] = current_time, before the channels are called
StampOnFire(cd, key, t, failed) == Stamp(cd, key, t)

\* _send_alert for each message in turn: st = [cd, fired, again, calls, raised,
\* lost];
\* an exception leaving _send_alert ends the loop of check_alerts
RECURSIVE send_alerts(_, _, _, _)
send_alerts(messages, st, t, slack) ==
    IF messages = <<>> \/ st.raised THEN st
    ELSE LET key == cooldown_key(Head(messages))
             sent == dispatch(Head(messages), config.channels, slack)
         IN  IF InCooldown(st.cd, key, t)
             THEN send_alerts(Tail(messages), Suppress(st, key, t), t, slack)
             ELSE send_alerts(
                    Tail(messages),
                    [cd |-> StampOnFire(st.cd, key, t, AllFailed(sent.calls)),
                     fired |-> st.fired \cup {Head(messages)},
                     again |-> IF key \in DOMAIN st.cd
                               THEN st.again \cup {Head(messages)}
                               ELSE st.again,
                     calls |-> st.calls \o sent.calls,
                     raised |-> sent.raised,
                     lost |-> IF AllFailed(sent.calls)
                              THEN st.lost \cup {Head(messages)}
                              ELSE st.lost \ {Head(messages)}],
                    t, slack)

\* one check_alerts(m) call at time t, with every _send_alert it makes
Evaluate(m, t, slack) ==
    LET triggered == check_alerts(m)
        st == send_alerts(triggered,
                          [cd |-> alert_cooldown, fired |-> {}, again |-> {},
                           calls |-> <<>>, raised |-> FALSE,
                           lost |-> undelivered], t, slack)
    IN  /\ alerts_triggered' = triggered
        /\ alert_cooldown' = st.cd
        /\ dispatched' = st.fired
        /\ refired' = st.again
        /\ channelCalls' = [calls |-> st.calls, raised |-> st.raised]
        /\ undelivered' = st.lost
        /\ evalAt' = t
        /\ evalOf' = m

----------------------------------------------------------------------------
(* The environment of the service *)

\* what the providers can return during one collect_metrics call
Partitions ==
    <<[device |-> "/dev/sda1", mountpoint |-> "/", fstype |-> "ext4",
       total |-> 1000, used |-> 950, error |-> "none"],
      [device |-> "tmpfs", mountpoint |-> "/run", fstype |-> "tmpfs",
       total |-> 100, used |-> 99, error |-> "none"]>>

HostSamples ==
    {[raises |-> "none", cpu |-> 4550, memory |-> 5000, swap |-> 0,
      partitions |-> <<>>, network_seconds |-> 0],
     [raises |-> "none", cpu |-> 9500, memory |-> 9000, swap |-> 6000,
      partitions |-> Partitions, network_seconds |-> 0],
     [raises |-> "cpu", cpu |-> 0, memory |-> 0, swap |-> 0,
      partitions |-> <<>>, network_seconds |-> 0]}

\* what requests.post / raise_for_status can do
Retryable == {"Timeout", "ConnectionError", "HTTPError"}
PostOutcomes == {"ok", "Exception"} \cup Retryable

\* the sink's behaviour during one call: the class of its answer to the
\* 1st, 2nd, ... POST ("retry" stands for any outcome in Retryable), one
\* answer more than the call may ask for
SinkClasses == {"ok", "retry", "fatal"}
Scripts(n) == [1..(n + 1) -> SinkClasses]

OutcomesOf(class) ==
    IF class = "ok" THEN {"ok"}
    ELSE IF class = "retry" THEN Retryable
    ELSE {"Exception"}

\* the statuses raise_for_status turns into HTTPError, by example
ErrorStatuses == {404, 503}

\* the response the call has in hand: none when requests.post raised
Responses(outcome) ==
    IF outcome = "ok" THEN {[status_code |-> 200]}
    ELSE IF outcome = "HTTPError"
    THEN {[status_code |-> status] : status \in ErrorStatuses}
    ELSE {None}

\* a timed-out request returns after the configured timeout
post_seconds(outcome) == IF outcome = "Timeout" THEN post_timeout ELSE 0

----------------------------------------------------------------------------
(* __init__ *)

Configs ==
    [max_retries : 0..MaxRetries, alerts_enabled : {TRUE},
     include_network : {TRUE}, channels : {<<"log">>}]

InitCommon ==
    /\ running = TRUE
    /\ alert_cooldown = <<>>
    /\ now = 0
    /\ attempt = 0
    /\ metrics = None
    /\ start_time = 0
    /\ result = "None"
    /\ script = <<>>
    /\ posts = 0
    /\ firstSent = None
    /\ lastSent = None
    /\ lastOutcome = "none"
    /\ response = None
    /\ lastLog = None
    /\ collects = 0
    /\ alertRuns = 0
    /\ sleeps = 0
    /\ alerts_triggered = <<>>
    /\ dispatched = {}
    /\ evalAt = 0
    /\ evalOf = None
    /\ refired = {}
    /\ channelCalls = NoCalls
    /\ undelivered = {}

Init ==
    /\ config \in Configs
    /\ pc = "loop"
    /\ config_file = None
    /\ host = None
    /\ faults = FALSE
    /\ InitCommon

----------------------------------------------------------------------------
(* _signal_handler *)

SignalHandlerToggle ==
    /\ pc \notin {"init", "exited", "stopped"}
    /\ running' = ~running
    /\ UNCHANGED <<config, config_file, host, faults, now, pc, start_time>>
    /\ UNCHANGED sendVars
    /\ UNCHANGED alertVars

\* `self.running = False`, between any two steps of the program
SignalHandler ==
    /\ pc \notin {"init", "exited", "stopped"}
    /\ running' = FALSE
    /\ UNCHANGED <<config, config_file, host, faults, now, pc, start_time>>
    /\ UNCHANGED sendVars
    /\ UNCHANGED alertVars

----------------------------------------------------------------------------
(* run *)

LoopConditionAlways == TRUE

\* the test of `while self.running`
LoopCondition == running

AtLoopTestOrRetrying == pc \in {"loop", "retry_sleep"}

\* control is at the top of the while loop: the previous iteration is over
AtLoopTest == pc = "loop"

\* `while self.running`, true: start_time is taken and send_metrics entered
CycleStart ==
    /\ AtLoopTest
    /\ LoopCondition
    /\ now < MaxTime
    /\ start_time' = now
    /\ attempt' = 0
    /\ metrics' = None
    /\ result' = "None"
    /\ script' \in Scripts(config.max_retries)
    /\ posts' = 0
    /\ firstSent' = None
    /\ lastSent' = None
    /\ lastOutcome' = "none"
    /\ response' = None
    /\ lastLog' = None
    /\ collects' = 0
    /\ alertRuns' = 0
    /\ sleeps' = 0
    /\ pc' = "for"
    /\ UNCHANGED <<config, config_file, host, faults, running, now>>
    /\ UNCHANGED alertVars

\* `while self.running`, false: the loop is left
RunExit ==
    /\ pc = "loop"
    /\ ~LoopCondition
    /\ pc' = "stopped"
    /\ UNCHANGED <<config, config_file, host, faults, running, now, start_time>>
    /\ UNCHANGED sendVars
    /\ UNCHANGED alertVars

SleepTimeWholeInterval == interval_seconds

\* after send_metrics returned: elapsed_time, sleep_time and the branch on it
SleepTime == Max(0, interval_seconds - (now - start_time))

AfterSend ==
    /\ pc = "returned"
    /\ pc' = IF SleepTime > 0 THEN "cycle_sleep" ELSE "loop"
    /\ UNCHANGED <<config, config_file, host, faults, running, now, start_time>>
    /\ UNCHANGED sendVars
    /\ UNCHANGED alertVars

CycleSleep ==
    /\ pc = "cycle_sleep"
    /\ now' = now + SleepTime
    /\ pc' = "loop"
    /\ UNCHANGED <<config, config_file, host, faults, running, start_time>>
    /\ UNCHANGED sendVars
    /\ UNCHANGED alertVars

----------------------------------------------------------------------------
(* send_metrics *)

HasAttemptOffByOne == attempt <= config.max_retries

HasAttemptAtLeastOnce == attempt < Max(1, config.max_retries)

\* `for attempt in range(max_retries)`: there is an iteration to run
HasAttempt == attempt < config.max_retries

\* the host of this run: its hostname lookup fails now and then, or never
HostsNow ==
    IF faults
    THEN HostSamples \cup {[raises |-> "hostname", cpu |-> 0, memory |-> 0,
                            swap |-> 0, partitions |-> <<>>,
                            network_seconds |-> 0]}
    ELSE HostSamples

\* the body of the for loop up to the POST: collect_metrics; an exception
\* leaving it is caught by the `except Exception` handler, which breaks
Collect ==
    /\ pc = "for"
    /\ HasAttempt
    /\ \E h \in HostsNow :
          /\ now' = now + collect_seconds(h)
          /\ IF IsRaise(collect_metrics(h, now))
             THEN /\ metrics' = metrics
                  /\ pc' = "break"
             ELSE /\ metrics' = collect_metrics(h, now)
                  /\ pc' = IF IsErrorSnapshot(collect_metrics(h, now))
                           THEN "post" ELSE "alerts"
    /\ collects' = collects + 1
    /\ UNCHANGED <<config, config_file, host, faults, running, start_time, attempt, result, script, posts,
                   firstSent, lastSent, lastOutcome, response, lastLog, alertRuns, sleeps>>
    /\ UNCHANGED alertVars

\* `if not metrics.get('error'): self.check_alerts(metrics)`
CheckAlerts ==
    /\ pc = "alerts"
    /\ \E slack \in SlackOutcomesNow : Evaluate(metrics, now, slack)
    /\ alertRuns' = alertRuns + 1
    /\ pc' = "post"
    /\ UNCHANGED <<config, config_file, host, faults, running, now, start_time, attempt, metrics, result,
                   script, posts, firstSent, lastSent, lastOutcome, response, lastLog, collects,
                   sleeps>>

payload(m) == [hostname |-> Get(m, "hostname", hostname), metrics |-> m]

AfterPostBreakOnFailure(outcome) ==
    IF outcome = "ok" THEN "returned" ELSE "break"

AfterPostRetryAll(outcome) ==
    IF outcome = "ok" THEN "returned"
    ELSE IF attempt < config.max_retries - 1 THEN "retry_sleep" ELSE "next"

AfterPostStopOnSignal(outcome) ==
    IF outcome = "ok" THEN "returned"
    ELSE IF outcome \in Retryable /\ running
         THEN (IF attempt < config.max_retries - 1 THEN "retry_sleep" ELSE "next")
    ELSE "break"

AfterPostGoesOnAfterSuccess(outcome) ==
    IF outcome \in Retryable \cup {"ok"}
    THEN (IF attempt < config.max_retries - 1 THEN "retry_sleep" ELSE "next")
    ELSE "break"

AfterPostHTTPErrorBreaks(outcome) ==
    IF outcome = "ok" THEN "returned"
    ELSE IF outcome \in Retryable \ {"HTTPError"}
         THEN (IF attempt < config.max_retries - 1 THEN "retry_sleep" ELSE "next")
    ELSE "break"

\* where the attempt goes after requests.post / raise_for_status
AfterPost(outcome) ==
    IF outcome = "ok" THEN "returned"
    ELSE IF outcome \in Retryable
         THEN (IF attempt < config.max_retries - 1 THEN "retry_sleep" ELSE "next")
    ELSE "break"

\* an int among the values of a log record (None is the other value there)
PyInt(n) == [py |-> "int", value |-> n]

\* bool(e.response): a requests.Response is true when its status is below 400
Truthy(r) == r # None /\ r.status_code < 400

\* the log record of the attempt: `info` on success, `warning` for Timeout
\* and ConnectionError, `error` with a status_code field for HTTPError
post_log(outcome, r) ==
    IF outcome = "ok"
    THEN [level |-> "info", attempt |-> attempt + 1,
          response_status |-> PyInt(r.status_code)]
    ELSE IF outcome = "HTTPError"
    THEN [level |-> "error", attempt |-> attempt + 1,
          status_code |-> IF Truthy(r) THEN PyInt(r.status_code) ELSE None,
          will_retry |-> attempt < config.max_retries - 1]
    ELSE IF outcome \in Retryable
    THEN [level |-> "warning", attempt |-> attempt + 1,
          will_retry |-> attempt < config.max_retries - 1]
    ELSE [level |-> "error", attempt |-> attempt + 1]

Post ==
    /\ pc = "post"
    /\ \E outcome \in OutcomesOf(script[attempt + 1]) :
          /\ lastOutcome' = outcome
          /\ \E r \in Responses(outcome) :
                /\ response' = r
                /\ lastLog' = post_log(outcome, r)
          /\ now' = now + post_seconds(outcome)
          /\ pc' = AfterPost(outcome)
          /\ result' = IF outcome = "ok" THEN "True" ELSE result
    /\ posts' = posts + 1
    /\ firstSent' = IF posts = 0 THEN payload(metrics) ELSE firstSent
    /\ lastSent' = payload(metrics)
    /\ UNCHANGED <<config, config_file, host, faults, running, start_time, attempt, metrics, script,
                   collects, alertRuns, sleeps>>
    /\ UNCHANGED alertVars

RetrySleepGrowing ==
    /\ pc = "retry_sleep"
    /\ now' = now + retry_delay * (attempt + 1)
    /\ sleeps' = sleeps + 1
    /\ attempt' = attempt + 1
    /\ pc' = "for"
    /\ UNCHANGED <<config, config_file, host, faults, running, start_time, metrics, result, script, posts,
                   firstSent, lastSent, lastOutcome, response, lastLog, collects, alertRuns>>
    /\ UNCHANGED alertVars

\* `time.sleep(retry_delay)`, then the next iteration
RetrySleep ==
    /\ pc = "retry_sleep"
    /\ now' = now + retry_delay
    /\ sleeps' = sleeps + 1
    /\ attempt' = attempt + 1
    /\ pc' = "for"
    /\ UNCHANGED <<config, config_file, host, faults, running, start_time, metrics, result, script, posts,
                   firstSent, lastSent, lastOutcome, response, lastLog, collects, alertRuns>>
    /\ UNCHANGED alertVars

\* the last iteration failed: no sleep, the loop ends
NextAttempt ==
    /\ pc = "next"
    /\ attempt' = attempt + 1
    /\ pc' = "for"
    /\ UNCHANGED <<config, config_file, host, faults, running, now, start_time, metrics, result, script,
                   posts, firstSent, lastSent, lastOutcome, response, lastLog, collects, alertRuns,
                   sleeps>>
    /\ UNCHANGED alertVars

\* after the loop (exhausted, or left by break): the error log and return False
ReturnFalse ==
    /\ \/ pc = "for" /\ ~HasAttempt
       \/ pc = "break"
    /\ result' = "False"
    /\ pc' = "returned"
    /\ UNCHANGED <<config, config_file, host, faults, running, now, start_time, attempt, metrics, script,
                   posts, firstSent, lastSent, lastOutcome, response, lastLog, collects, alertRuns,
                   sleeps>>
    /\ UNCHANGED alertVars

Next ==
    \/ SignalHandler
    \/ CycleStart
    \/ RunExit
    \/ AfterSend
    \/ CycleSleep
    \/ Collect
    \/ CheckAlerts
    \/ Post
    \/ RetrySleep
    \/ NextAttempt
    \/ ReturnFalse

Spec == Init /\ [][Next]_vars

----------------------------------------------------------------------------
(* check_alerts called directly, as tests/test_collector.py does: the      *)
(* caller builds the snapshot ({'cpu': {'percent': 85.0}, ...}, with       *)
(* 'disk' a list of {'percent', 'mountpoint'}) and the clock moves on      *)
(* between calls.                                                          *)

Fs(mountpoint, percent) == [percent |-> percent, mountpoint |-> mountpoint]

AlertSnapshots ==
    {[cpu |-> [percent |-> 8500], memory |-> [percent |-> 9000],
      swap |-> [percent |-> 6000], disk |-> PyList(<<Fs("/", 9500)>>)],
     [cpu |-> [percent |-> 8500]],
     [cpu |-> [percent |-> 8504]],
     [cpu |-> [percent |-> 8600]],
     [cpu |-> [percent |-> 8000], memory |-> [percent |-> 8500],
      swap |-> [percent |-> 5000],
      disk |-> PyList(<<Fs("/", 9000), Fs("/var", 9200)>>)],
     [memory |-> [percent |-> 9000],
      disk |-> PyList(<<Fs("/", 9500), Fs("/var", 9200)>>)]}

AlertConfigs ==
    [max_retries : {MaxRetries}, alerts_enabled : BOOLEAN,
     include_network : {TRUE}, channels : {<<"log">>}]

InitAlerts ==
    /\ config \in AlertConfigs
    /\ pc = "api"
    /\ config_file = None
    /\ host = None
    /\ faults = FALSE
    /\ InitCommon

CheckAlertsCall ==
    /\ pc = "api"
    /\ \E m \in AlertSnapshots, slack \in SlackOutcomesNow :
          Evaluate(m, now, slack)
    /\ UNCHANGED <<config, config_file, host, faults, running, now, pc, start_time>>
    /\ UNCHANGED sendVars

ClockAdvance ==
    /\ pc = "api"
    /\ now + SecondsPerMinute <= MaxMinutes * SecondsPerMinute
    /\ now' = now + SecondsPerMinute
    /\ UNCHANGED <<config, config_file, host, faults, running, pc, start_time>>
    /\ UNCHANGED sendVars
    /\ UNCHANGED alertVars

NextAlerts ==
    \/ CheckAlertsCall
    \/ ClockAdvance

SpecAlerts == InitAlerts /\ [][NextAlerts]_vars

----------------------------------------------------------------------------
(* check_alerts called directly, with alert channels that can fail *)

\* alerts.channels of the configuration file
ChannelLists ==
    {<<"log">>, <<"slack">>, <<"slack", "email">>, <<"email", "slack", "log">>}

ChannelConfigs ==
    [max_retries : {MaxRetries}, alerts_enabled : {TRUE},
     include_network : {TRUE}, channels : ChannelLists]

\* one breach, and three breaches at once
ChannelSnapshots ==
    {[cpu |-> [percent |-> 8600]],
     [memory |-> [percent |-> 9000],
      disk |-> PyList(<<Fs("/", 9500), Fs("/var", 9200)>>)]}

InitChannels ==
    /\ config \in ChannelConfigs
    /\ pc = "api"
    /\ config_file = None
    /\ host = None
    /\ faults = FALSE
    /\ InitCommon

CheckAlertsChannels ==
    /\ pc = "api"
    /\ \E m \in ChannelSnapshots, slack \in SlackOutcomesNow :
          Evaluate(m, now, slack)
    /\ UNCHANGED <<config, config_file, host, faults, running, now, pc, start_time>>
    /\ UNCHANGED sendVars

NextChannels ==
    \/ CheckAlertsChannels
    \/ ClockAdvance

SpecChannels == InitChannels /\ [][NextChannels]_vars

----------------------------------------------------------------------------
(* The gate of send_metrics (collect, then check_alerts unless the         *)
(* snapshot carries 'error') with collect_metrics replaced by a given      *)
(* snapshot, as the tests do, alerts enabled or not                        *)

\* the snapshots of ChannelSnapshots, and an error snapshot that breaches
GateSnapshots ==
    ChannelSnapshots
    \cup {[cpu |-> [percent |-> 8600], memory |-> [percent |-> 9000],
           error |-> [type |-> "OSError"], status |-> "error"]}

InitGate ==
    /\ config \in AlertConfigs
    /\ pc = "api"
    /\ config_file = None
    /\ host = None
    /\ faults = FALSE
    /\ InitCommon

AlertGate ==
    /\ pc = "api"
    /\ \E m \in GateSnapshots, slack \in SlackOutcomesNow :
          /\ metrics' = m
          /\ IF IsErrorSnapshot(m)
             THEN UNCHANGED alertVars
             ELSE Evaluate(m, now, slack)
    /\ UNCHANGED <<config, config_file, host, faults, running, now, pc, start_time>>
    /\ UNCHANGED <<attempt, result, script, posts, firstSent, lastSent,
                   lastOutcome, response, lastLog, collects, alertRuns, sleeps>>

NextGate ==
    \/ AlertGate
    \/ ClockAdvance

SpecGate == InitGate /\ [][NextGate]_vars

----------------------------------------------------------------------------
(* collect_metrics called on its own, for every behaviour of the providers *)

ProviderCalls ==
    {"none", "hostname", "cpu", "memory", "swap", "disk", "disk_io", "network"}

PartitionKinds ==
    {[device |-> "/dev/sda1", mountpoint |-> "/", fstype |-> "ext4",
      total |-> 1000, used |-> 950, error |-> "none"],
     [device |-> "/dev/sdb1", mountpoint |-> "/data", fstype |-> "ext4",
      total |-> 3, used |-> 1, error |-> "PermissionError"],
     [device |-> "/dev/sdc1", mountpoint |-> "/srv", fstype |-> "xfs",
      total |-> 3, used |-> 2, error |-> "OSError"],
     [device |-> "/dev/sdd1", mountpoint |-> "/mnt", fstype |-> "ext4",
      total |-> 8, used |-> 1, error |-> "Exception"],
     [device |-> "tmpfs", mountpoint |-> "/run", fstype |-> "tmpfs",
      total |-> 100, used |-> 99, error |-> "Exception"],
     [device |-> "/dev/sr0", mountpoint |-> "/media", fstype |-> "iso9660",
      total |-> 0, used |-> 0, error |-> "none"],
     [device |-> "/dev/sda2", mountpoint |-> "/home", fstype |-> "ext4",
      total |-> 3, used |-> 2, error |-> "none"],
     [device |-> "/dev/sdb2", mountpoint |-> "/var", fstype |-> "xfs",
      total |-> 3, used |-> 1, error |-> "none"],
     [device |-> "devtmpfs", mountpoint |-> "/dev", fstype |-> "devtmpfs",
      total |-> 0, used |-> 0, error |-> "none"],
     [device |-> "/dev/loop0", mountpoint |-> "/snap", fstype |-> "squashfs",
      total |-> 50, used |-> 50, error |-> "OSError"],
     [device |-> "overlay", mountpoint |-> "/var/lib/docker", fstype |-> "overlay",
      total |-> 1000, used |-> 10, error |-> "none"]}

PartitionLists == UNION {[1..n -> PartitionKinds] : n \in 0..MaxPartitions}

\* time psutil.net_io_counters() takes: none to speak of, or a second
NetworkSeconds == {0, 1}

CollectInputs ==
    [raises : ProviderCalls, cpu : {9500}, memory : {9000}, swap : {6000},
     partitions : PartitionLists, network_seconds : NetworkSeconds]

CollectConfigs ==
    [max_retries : {MaxRetries}, alerts_enabled : {TRUE},
     include_network : BOOLEAN, channels : {<<"log">>}]

InitCollect ==
    /\ config \in CollectConfigs
    /\ pc = "collect_call"
    /\ config_file = None
    /\ host \in CollectInputs
    /\ faults = TRUE
    /\ InitCommon

CollectCall ==
    /\ pc = "collect_call"
    /\ metrics' = collect_metrics(host, now)
    /\ now' = now + collect_seconds(host)
    /\ pc' = "collect_done"
    /\ UNCHANGED <<config, config_file, host, faults, running, start_time, attempt, result,
                   script, posts, firstSent, lastSent, lastOutcome, response, lastLog, collects,
                   alertRuns, sleeps>>
    /\ UNCHANGED alertVars

NextCollect == CollectCall

SpecCollect == InitCollect /\ [][NextCollect]_vars

----------------------------------------------------------------------------
(* The service on a host whose hostname lookup can fail: the lookup on     *)
(* entry of send_metrics is outside its try, so its exception reaches the  *)
(* handler of run.                                                         *)

PauseSeconds == 5

InitFaults ==
    /\ config \in Configs
    /\ pc = "loop"
    /\ config_file = None
    /\ host = None
    /\ faults = TRUE
    /\ InitCommon

\* psutil.os.uname() raises on entry of send_metrics: `except Exception` of run
SendEntryRaises ==
    /\ pc = "for"
    /\ attempt = 0
    /\ collects = 0
    /\ faults
    /\ pc' = "pause"
    /\ UNCHANGED <<config, config_file, host, faults, running, now, start_time>>
    /\ UNCHANGED sendVars
    /\ UNCHANGED alertVars

ErrorPauseThenExit ==
    /\ pc = "pause"
    /\ now' = now + PauseSeconds
    /\ pc' = "stopped"
    /\ UNCHANGED <<config, config_file, host, faults, running, start_time>>
    /\ UNCHANGED sendVars
    /\ UNCHANGED alertVars

\* `time.sleep(5)` of the handler, then the loop test
ErrorPause ==
    /\ pc = "pause"
    /\ now' = now + PauseSeconds
    /\ pc' = "loop"
    /\ UNCHANGED <<config, config_file, host, faults, running, start_time>>
    /\ UNCHANGED sendVars
    /\ UNCHANGED alertVars

\* the steps of the program (the signal is the environment's)
ProgramStep ==
    \/ CycleStart
    \/ RunExit
    \/ AfterSend
    \/ CycleSleep
    \/ Collect
    \/ CheckAlerts
    \/ Post
    \/ RetrySleep
    \/ NextAttempt
    \/ ReturnFalse
    \/ SendEntryRaises
    \/ ErrorPause

NextFaults ==
    \/ SignalHandler
    \/ ProgramStep

SpecFaults == InitFaults /\ [][NextFaults]_vars

\* every call, sleep and POST of the single thread returns: the program
\* takes its next step
SpecFaultsFair == SpecFaults /\ WF_vars(ProgramStep)

----------------------------------------------------------------------------
(* The start of the process: MetricCollector(config_path) and then run()   *)

RequiredSectionsEndpointOnly == {"endpoint"}

\* required_sections of _load_config
RequiredSections == {"endpoint", "interval_seconds", "thresholds"}

\* the file at config_path: missing, empty (yaml.safe_load gives None), or a
\* mapping with some of the sections
ConfigFiles ==
    {[kind |-> "missing", sections |-> {}], [kind |-> "empty", sections |-> {}]}
    \cup {[kind |-> "mapping", sections |-> S] :
              S \in SUBSET {"endpoint", "interval_seconds", "thresholds"}}

SystemExit == [raised |-> "SystemExit"]

\* _load_config: FileNotFoundError for a missing file, TypeError for
\* `section not in None`, ValueError for a missing section, all caught by
\* `except Exception`, which calls sys.exit(1); else the parsed configuration
\* with its defaults
_load_config(file) ==
    IF file.kind = "missing" THEN SystemExit
    ELSE IF file.kind = "empty" THEN SystemExit
    ELSE IF \E section \in RequiredSections : section \notin file.sections
         THEN SystemExit
    ELSE [max_retries |-> MaxRetries, alerts_enabled |-> TRUE,
          include_network |-> TRUE, channels |-> <<"log">>]

InitStartup ==
    /\ config = None
    /\ pc = "init"
    /\ config_file \in ConfigFiles
    /\ host = None
    /\ faults = FALSE
    /\ InitCommon

\* __init__: SystemExit leaves the constructor and ends the process; else
\* main calls run()
Construct ==
    /\ pc = "init"
    /\ IF _load_config(config_file) = SystemExit
       THEN /\ pc' = "exited"
            /\ config' = config
       ELSE /\ pc' = "loop"
            /\ config' = _load_config(config_file)
    /\ UNCHANGED <<config_file, host, faults, running, now, start_time>>
    /\ UNCHANGED sendVars
    /\ UNCHANGED alertVars

NextStartup ==
    \/ Construct
    \/ Next

SpecStartup == InitStartup /\ [][NextStartup]_vars

----------------------------------------------------------------------------
(* Properties of send_metrics and run, checked under Spec *)

\* send_metrics has returned and no new call has begun
CallDone ==
    /\ pc \in {"returned", "cycle_sleep", "loop", "stopped"}
    /\ result # "None"

FailsTwiceThenSucceeds ==
    /\ config.max_retries = 3
    /\ script[1] = "retry"
    /\ script[2] = "retry"
    /\ script[3] = "ok"

\* C1: with max_retries = 3 and a sink whose first two POSTs fail with a
\* retryable failure and whose third POST succeeds, send_metrics returns True
\* and the sink has been invoked exactly 3 times.
C1_RetryThenSuccess ==
    (CallDone /\ FailsTwiceThenSucceeds) => (result = "True" /\ posts = 3)

C1_Witness ==
    /\ pc = "returned"
    /\ FailsTwiceThenSucceeds
    /\ result = "True"
    /\ posts = 3
    /\ sleeps = 2

\* C2: every POST of one send_metrics call carries the payload of its first
\* POST (same hostname, same metrics).
C2_SamePayloadEveryAttempt ==
    posts >= 1 => (/\ lastSent.hostname = firstSent.hostname
                   /\ lastSent.metrics = firstSent.metrics)

\* C3: in one cycle the snapshot is built exactly once and check_alerts runs
\* at most once, however many POST attempts the cycle makes.
C3_OneSnapshotPerCycle ==
    /\ collects <= 1
    /\ alertRuns <= 1
    /\ posts >= 1 => collects = 1

AlwaysRetryable ==
    /\ config.max_retries >= 1
    /\ \A i \in 1..config.max_retries : script[i] = "retry"

\* C4: with max_retries = N and a sink that fails every POST with a timeout
\* (or another retryable failure), send_metrics returns False after exactly N
\* POSTs, and the count stays N once it has returned.
C4_ExhaustsAfterNAttempts ==
    (CallDone /\ AlwaysRetryable) =>
        (result = "False" /\ posts = config.max_retries)

C4_Witness ==
    /\ pc = "returned"
    /\ AlwaysRetryable
    /\ config.max_retries = 3
    /\ lastOutcome = "Timeout"
    /\ result = "False"
    /\ posts = 3

GenericTwiceThenSucceeds ==
    /\ config.max_retries = 3
    /\ script[1] = "fatal"
    /\ script[2] = "fatal"
    /\ script[3] = "ok"

\* C5: as test_send_metrics_retry states it: with max_retries = 3, when
\* requests.post raises a generic Exception on its first two calls and answers
\* the third, send_metrics returns True after exactly 3 POSTs.
C5_RetryTestExpectation ==
    (CallDone /\ GenericTwiceThenSucceeds) => (result = "True" /\ posts = 3)

----------------------------------------------------------------------------
(* Properties of check_alerts and _send_alert *)

Window == cooldown_minutes * SecondsPerMinute

\* C7: for every alert key, an evaluation of the same breaching condition made
\* within the cooldown window of the key's last dispatch dispatches nothing and
\* leaves the key's entry alone (so two evaluations within the window dispatch at
\* most once), and an evaluation made once the window has elapsed since that
\* dispatch dispatches again.
C7_CooldownWindow ==
    [][alertVars' # alertVars =>
        \A i \in DOMAIN alerts_triggered' :
            LET msg == alerts_triggered'[i]
                key == cooldown_key(msg)
            IN  /\ key \in DOMAIN alert_cooldown'
                /\ key \in DOMAIN alert_cooldown =>
                      IF now - alert_cooldown[key] < Window
                      THEN /\ msg \notin dispatched'
                           /\ alert_cooldown'[key] = alert_cooldown[key]
                      ELSE /\ msg \in dispatched'
                           /\ alert_cooldown'[key] = now]_vars

\* the latest evaluation fired one alert again and suppressed another
C7_Witness ==
    /\ pc = "api"
    /\ \E msg \in refired : alert_cooldown[cooldown_key(msg)] = evalAt
    /\ \E i \in DOMAIN alerts_triggered :
          /\ alerts_triggered[i] \notin dispatched
          /\ alert_cooldown[cooldown_key(alerts_triggered[i])] < evalAt

\* C8: the cooldown identity is the family and target of the alert, not its
\* text: two entries of the registry for the same family and target (they
\* differ in the percentage shown) are never less than one window apart.
C8_KeyIsFamilyAndTarget ==
    \A k1, k2 \in DOMAIN alert_cooldown :
        (k1 # k2 /\ k1.family = k2.family /\ k1.target = k2.target) =>
            \/ alert_cooldown[k1] - alert_cooldown[k2] >= Window
            \/ alert_cooldown[k2] - alert_cooldown[k1] >= Window

Families == {"cpu", "memory", "swap"}

BreachedFamilies(m) ==
    {f \in Families : f \in DOMAIN m /\ m[f].percent > thresholds[f] * 100}

BreachedFilesystems(m) ==
    IF "disk" \in DOMAIN m
    THEN {i \in DOMAIN m.disk.items :
             m.disk.items[i].percent > thresholds.disk * 100}
    ELSE {}

TestAlertCheckingSnapshot ==
    [cpu |-> [percent |-> 8500], memory |-> [percent |-> 9000],
     swap |-> [percent |-> 6000], disk |-> PyList(<<Fs("/", 9500)>>)]

\* C9: check_alerts hands _send_alert exactly one alert per family and per
\* filesystem whose percentage is strictly greater than its threshold, and none
\* for a percentage equal to or below it; the snapshot of test_alert_checking
\* gives exactly 4.
C9_OneAlertPerBreach ==
    (pc = "api" /\ config.alerts_enabled /\ evalOf # None) =>
        /\ Len(alerts_triggered) =
              Cardinality(BreachedFamilies(evalOf))
              + Cardinality(BreachedFilesystems(evalOf))
        /\ \A f \in Families :
              Cardinality({i \in DOMAIN alerts_triggered :
                              alerts_triggered[i].family = f})
              = IF f \in BreachedFamilies(evalOf) THEN 1 ELSE 0
        /\ \A j \in BreachedFilesystems(evalOf) :
              \E i \in DOMAIN alerts_triggered :
                  /\ alerts_triggered[i].family = "disk"
                  /\ alerts_triggered[i].target = evalOf.disk.items[j].mountpoint
        /\ evalOf = TestAlertCheckingSnapshot => Len(alerts_triggered) = 4

\* the snapshot with cpu, memory and swap exactly at their thresholds and one
\* of two filesystems over the disk threshold: one alert
C9_Witness ==
    /\ pc = "api"
    /\ config.alerts_enabled
    /\ evalOf \in AlertSnapshots
    /\ "cpu" \in DOMAIN evalOf
    /\ evalOf.cpu.percent = thresholds.cpu * 100
    /\ Cardinality(BreachedFilesystems(evalOf)) = 1
    /\ Len(alerts_triggered) = 1

\* what a snapshot built by collect_metrics shows to be over its threshold
SampledOver(m) ==
    {f \in {"cpu"} : m.cpu.overall_percent > thresholds.cpu * 100}
    \cup {f \in {"memory"} : m.memory.percent_used > thresholds.memory * 100}
    \cup {f \in {"swap"} : m.swap.percent_used > thresholds.swap * 100}

FilesystemsOver(m) ==
    {i \in DOMAIN m.disk.filesystems.items :
        m.disk.filesystems.items[i].percent_used > thresholds.disk * 100}

\* C10: in the cycle, once check_alerts has run on the successful snapshot
\* built by collect_metrics, every family whose sampled percentage is over its
\* threshold, and every filesystem over the disk threshold, has an alert.
C10_CycleAlertsOnBreach ==
    (pc = "post" /\ ~IsErrorSnapshot(metrics)) =>
        /\ \A f \in SampledOver(metrics) :
              \E i \in DOMAIN alerts_triggered : alerts_triggered[i].family = f
        /\ \A j \in FilesystemsOver(metrics) :
              \E i \in DOMAIN alerts_triggered :
                  /\ alerts_triggered[i].family = "disk"
                  /\ alerts_triggered[i].target =
                        metrics.disk.filesystems.items[j].mountpoint

----------------------------------------------------------------------------
(* Properties of the snapshot *)

\* C11: when the snapshot of a cycle is an error snapshot, no alert has been
\* evaluated in that cycle, and once the attempt has passed its POST the error
\* snapshot is what was posted.
C11_ErrorSnapshotNoAlerts ==
    IsErrorSnapshot(metrics) =>
        /\ alertRuns = 0
        /\ pc # "post" => (posts >= 1 /\ lastSent.metrics = metrics)

SnapshotFamilies == {"cpu", "memory", "swap", "disk"}

CollectReturned == pc = "collect_done" /\ ~IsRaise(metrics)

\* C12: every snapshot returned by collect_metrics is either a sample (cpu,
\* memory, swap and disk all present, no error) or an error marker (error
\* present, none of cpu, memory, swap, disk), never both and never neither.
C12_SampleOrErrorMarker ==
    CollectReturned =>
        LET present == SnapshotFamilies \cap DOMAIN metrics
        IN  \/ present = SnapshotFamilies /\ ~IsErrorSnapshot(metrics)
            \/ present = {} /\ IsErrorSnapshot(metrics)

C12_Witness ==
    /\ CollectReturned
    /\ host.raises = "memory"
    /\ IsErrorSnapshot(metrics)
    /\ SnapshotFamilies \cap DOMAIN metrics = {}

\* C13: collect_metrics never raises, whichever provider call fails, the
\* hostname lookup on entry included: it always returns a snapshot.
C13_CollectNeverRaises ==
    pc = "collect_done" => ~IsRaise(metrics)

FamilyCalls == {"cpu", "memory", "swap", "disk", "network"}

\* the call in which exactly one family fails to be read
OneFamilyFails ==
    /\ pc = "collect_done"
    /\ host.raises \in FamilyCalls
    /\ host.raises = "network" => config.include_network
    /\ \A i \in DOMAIN host.partitions :
          \/ host.partitions[i].fstype \in ExcludedFsTypes
          \/ host.partitions[i].error = "none"

Collected == IF config.include_network THEN FamilyCalls ELSE SnapshotFamilies

\* C14 (as claimed): a failure to read one family (cpu, memory, swap, disk or
\* network) is recovered locally: the snapshot omits that family, keeps the
\* others and is not an error snapshot.
C14_FamilyFailureRecovered ==
    OneFamilyFails =>
        /\ ~IsRaise(metrics)
        /\ ~IsErrorSnapshot(metrics)
        /\ Collected \cap DOMAIN metrics = Collected \ {host.raises}

\* C14 (amended): a failure to read the network counters is recovered locally
\* (the snapshot omits network, keeps cpu, memory, swap and disk and is not an
\* error snapshot); a failure to read cpu, memory, swap or the partition list
\* makes the snapshot an error snapshot that carries no family at all.
C14_OnlyNetworkRecovered ==
    OneFamilyFails =>
        /\ ~IsRaise(metrics)
        /\ IF host.raises = "network"
           THEN /\ ~IsErrorSnapshot(metrics)
                /\ FamilyCalls \cap DOMAIN metrics = SnapshotFamilies
           ELSE /\ IsErrorSnapshot(metrics)
                /\ FamilyCalls \cap DOMAIN metrics = {}

C14_Witness ==
    /\ OneFamilyFails
    /\ host.raises = "network"
    /\ host.partitions # <<>>
    /\ ~IsErrorSnapshot(metrics)
    /\ "network" \notin DOMAIN metrics
    /\ "cpu" \in DOMAIN metrics

Unreadable(p) == p.fstype \notin ExcludedFsTypes /\ p.error # "none"

Readable(p) == p.fstype \notin ExcludedFsTypes /\ p.error = "none"

\* no provider call fails but disk_usage on at least one filesystem
SomeFilesystemUnreadable ==
    /\ pc = "collect_done"
    /\ host.raises = "none"
    /\ \E i \in DOMAIN host.partitions : Unreadable(host.partitions[i])

Mountpoints(records) == [i \in DOMAIN records |-> records[i].mountpoint]

OthersKeptInOrder ==
    /\ ~IsRaise(metrics)
    /\ ~IsErrorSnapshot(metrics)
    /\ Mountpoints(metrics.disk.filesystems.items)
          = Mountpoints(SelectSeq(host.partitions, Readable))

----------------------------------------------------------------------------
(* Properties of the shutdown and of the loop-level error path *)

BetweenCycles == {"cycle_sleep", "pause", "loop"}

InTransmission == {"for", "alerts", "post", "retry_sleep", "next", "break"}

\* after the signal, from the sleep between two cycles: no cycle, no collect
\* and no POST any more
StopsBeforeNewCycle ==
    (~running /\ pc \in BetweenCycles) =>
        /\ pc' \in BetweenCycles \cup {"stopped"}
        /\ collects' = collects
        /\ posts' = posts

\* after the signal, inside send_metrics: each step is the one the loop takes
\* without the signal
TransmissionGoesOn ==
    (~running /\ pc \in InTransmission /\ pc' # pc) =>
        /\ pc' \in InTransmission \cup {"returned", "pause"}
        /\ pc = "for" /\ HasAttempt =>
              \/ pc' = "pause"
              \/ pc' \in {"alerts", "post", "break"} /\ collects' = collects + 1
        /\ pc = "alerts" => pc' = "post" /\ alertRuns' = alertRuns + 1
        /\ pc = "post" =>
              /\ posts' = posts + 1
              /\ pc' = IF lastOutcome' = "ok" THEN "returned"
                       ELSE IF lastOutcome' \notin Retryable THEN "break"
                       ELSE IF attempt < config.max_retries - 1
                            THEN "retry_sleep" ELSE "next"
        /\ pc = "retry_sleep" =>
              /\ pc' = "for"
              /\ now' = now + retry_delay
              /\ attempt' = attempt + 1

\* the signal itself moves nothing of the program
SignalMovesNothing ==
    running' # running =>
        /\ pc' = pc
        /\ now' = now
        /\ UNCHANGED <<config, start_time, alert_cooldown>>
        /\ UNCHANGED sendVars

\* C16: a signal delivered during the sleep between cycles stops the loop
\* before a new cycle starts (no collect, no POST after it); a signal delivered
\* during a transmission does not interrupt it: its remaining attempts and
\* retry delays run as without the signal.
C16_SignalAtSuspensionPoints ==
    [][StopsBeforeNewCycle /\ TransmissionGoesOn /\ SignalMovesNothing]_vars

C16_Witness ==
    /\ ~running
    /\ pc = "retry_sleep"
    /\ attempt = 1
    /\ posts = 2
    /\ lastOutcome \in Retryable

\* C17: running starts true; the signal handler sets it to false, a repeated
\* signal leaves it false and changes nothing else, and no step of the
\* program sets it back to true.
C17_RunningMonotone ==
    /\ running = TRUE
    /\ [][(~running => ~running') /\ SignalMovesNothing]_vars

C17_Witness ==
    /\ ~running
    /\ pc = "returned"
    /\ result = "False"
    /\ posts = config.max_retries
    /\ sleeps = config.max_retries - 1

\* C18: once the signal has been received, run returns, after the cycle in
\* progress at most (no new cycle starts), the cycle that raised an error and
\* took the error path of the loop included.
C18_SignalLeadsToStopped ==
    /\ ~running ~> pc = "stopped"
    /\ [][~running => ~(pc = "loop" /\ pc' = "for")]_vars

\* stopped after a last cycle that raised on entry of send_metrics
C18_Witness ==
    /\ pc = "stopped"
    /\ ~running
    /\ now > 0
    /\ result = "None"
    /\ collects = 0

\* C19: when the signal has been received by the time send_metrics returns,
\* the loop does not perform the sleep between cycles.
C19_NoSleepOnceSignalled ==
    [][(~running /\ pc = "returned") => pc' # "cycle_sleep"]_vars

\* C20: an error raised inside a cycle is followed by a pause of 5 seconds
\* and then by the loop test; run is left through the loop test with running
\* false only, never by a cycle that raised or by a delivery that failed.
C20_ErrorPathGoesOn ==
    [][/\ (pc = "pause" /\ pc' # pc) =>
              (pc' = "loop" /\ now' = now + PauseSeconds)
       /\ (pc # "stopped" /\ pc' = "stopped") => (pc = "loop" /\ ~running)
       /\ (pc = "returned" /\ result = "False") =>
              pc' \in {"returned", "cycle_sleep", "loop"}]_vars

\* a cycle started right after the pause of a first cycle that raised
C20_Witness ==
    /\ running
    /\ pc = "post"
    /\ start_time = PauseSeconds
    /\ now < interval_seconds

----------------------------------------------------------------------------
(* Properties of the alert dispatch *)

CallsFor(message, log) ==
    SelectSeq(log.calls, LAMBDA c : c.message = message)

\* C22: a fire stamps the registry with the current time whatever the channels
\* do afterwards, so an alert whose fire failed on every channel and which is
\* evaluated again within the window is suppressed: no channel is called for it.
C22_StampBeforeDispatch ==
    [][alertVars' # alertVars =>
        \A i \in DOMAIN alerts_triggered' :
            LET msg == alerts_triggered'[i]
                key == cooldown_key(msg)
            IN  /\ msg \in dispatched' =>
                      /\ key \in DOMAIN alert_cooldown'
                      /\ alert_cooldown'[key] = now
                /\ (msg \in dispatched' /\ AllFailed(CallsFor(msg, channelCalls')))
                      => msg \in undelivered'
                /\ msg \in undelivered =>
                      /\ key \in DOMAIN alert_cooldown
                      /\ now - alert_cooldown[key] < Window =>
                            /\ msg \notin dispatched'
                            /\ CallsFor(msg, channelCalls') = <<>>
                            /\ alert_cooldown'[key] = alert_cooldown[key]]_vars

\* the latest evaluation suppressed an alert whose fire had reached no channel
C22_Witness ==
    /\ pc = "api"
    /\ "slack" \in Range(config.channels)
    /\ \E i \in DOMAIN alerts_triggered :
          /\ alerts_triggered[i] \in undelivered
          /\ alerts_triggered[i] \notin dispatched
          /\ CallsFor(alerts_triggered[i], channelCalls) = <<>>
          /\ alert_cooldown[cooldown_key(alerts_triggered[i])] < evalAt

Channels(calls) == [i \in DOMAIN calls |-> calls[i].channel]

\* C23: no exception leaves check_alerts because of a channel; every alert that
\* fired had every configured channel called, in the configured order, and every
\* triggered alert was processed (fired, or found in its cooldown window).
C23_ChannelFailuresIsolated ==
    (pc = "api" /\ evalOf # None) =>
        /\ ~channelCalls.raised
        /\ \A msg \in dispatched :
              Channels(CallsFor(msg, channelCalls)) = config.channels
        /\ \A i \in DOMAIN alerts_triggered :
              LET msg == alerts_triggered[i]
              IN  /\ cooldown_key(msg) \in DOMAIN alert_cooldown
                  /\ \/ msg \in dispatched
                     \/ /\ alert_cooldown[cooldown_key(msg)] <= evalAt
                        /\ evalAt - alert_cooldown[cooldown_key(msg)] < Window

\* the webhook raised for the first of three alerts; the email channel was
\* still called for it and the two other alerts went through both channels
C23_Witness ==
    /\ pc = "api"
    /\ config.channels = <<"slack", "email">>
    /\ Len(alerts_triggered) = 3
    /\ Len(channelCalls.calls) = 6
    /\ channelCalls.calls[1].outcome = "RequestException"
    /\ channelCalls.calls[2].channel = "email"
    /\ channelCalls.calls[2].message = channelCalls.calls[1].message
    /\ channelCalls.calls[3].message # channelCalls.calls[1].message

\* C24: an alert fires if and only if its key has no entry in the registry or
\* the time since the key's last fire is at least the cooldown window; exactly
\* one window after the last fire it fires.
C24_FiresIffWindowElapsed ==
    [][alertVars' # alertVars =>
        \A i \in DOMAIN alerts_triggered' :
            LET msg == alerts_triggered'[i]
                key == cooldown_key(msg)
            IN  msg \in dispatched' <=>
                    \/ key \notin DOMAIN alert_cooldown
                    \/ now - alert_cooldown[key] >= Window]_vars

\* an alert fired at time 0 and fired again at exactly one window
C24_Witness ==
    /\ pc = "api"
    /\ evalAt = Window
    /\ refired # {}
    /\ \E msg \in dispatched \ refired : TRUE

----------------------------------------------------------------------------
(* Properties of the schedule *)

\* the step that enters send_metrics for a new cycle
StartsCycle == pc # "for" /\ pc' = "for" /\ collects' = 0 /\ attempt' = 0

\* C21: a cycle starts only from the loop test, when no send_metrics call is
\* in progress: there was no earlier call (or it raised on entry), or the
\* earlier call returned True after a successful POST, or it returned False
\* with its attempts exhausted or after a failure that is not retried.
C21_OneCycleInFlight ==
    [][StartsCycle =>
        /\ pc = "loop"
        /\ result = "None" => (posts = 0 /\ collects = 0)
        /\ result = "True" => lastOutcome = "ok"
        /\ result = "False" =>
              \/ attempt = config.max_retries
              \/ lastOutcome = "Exception"
              \/ collects = posts + 1]_vars

\* the second cycle is at its POST and the run is still on
C21_Witness ==
    /\ running
    /\ pc = "post"
    /\ start_time >= interval_seconds
    /\ posts = 0
    /\ collects = 1

----------------------------------------------------------------------------
(* Properties of send_metrics and of the sleep of the loop, continued *)

\* C25: a POST answered with an error status is retried as a timeout is: the
\* retry delay and the next attempt follow unless it was the final attempt, and
\* a POST that succeeds, on whichever attempt, makes send_metrics return True.
C25_ErrorStatusRetried ==
    [][(pc = "post" /\ pc' # pc) =>
        /\ lastOutcome' = "HTTPError" =>
              /\ pc' = IF attempt + 1 < config.max_retries
                       THEN "retry_sleep" ELSE "next"
              /\ result' = result
        /\ lastOutcome' = "ok" => (pc' = "returned" /\ result' = "True")]_vars

\* the second POST of a call was answered with an error status and a third
\* attempt is to follow
C25_Witness ==
    /\ pc = "retry_sleep"
    /\ lastOutcome = "HTTPError"
    /\ attempt = 1
    /\ posts = 2

\* C26: the delay after a failed attempt that is not the final one is
\* retry_delay, whatever the attempt number; the final attempt is followed by
\* no sleep; a call has slept once per attempt but the final one, so a call that
\* exhausts N attempts has slept N - 1 times.
C26_FixedRetryDelay ==
    /\ [](sleeps = IF attempt = config.max_retries /\ attempt > 0
                  THEN attempt - 1 ELSE attempt)
    /\ [][/\ (pc = "retry_sleep" /\ pc' # pc) =>
                (now' = now + retry_delay /\ sleeps' = sleeps + 1)
          /\ (pc = "next" /\ pc' # pc) => (now' = now /\ sleeps' = sleeps)
          /\ (pc = "post" /\ pc' = "retry_sleep") =>
                (lastOutcome' \in Retryable /\ attempt + 1 < config.max_retries)]_vars

\* a call of N = MaxRetries attempts, all failed and retried, has returned
C26_Witness ==
    /\ pc = "returned"
    /\ result = "False"
    /\ config.max_retries = MaxRetries
    /\ posts = MaxRetries
    /\ lastOutcome \in Retryable
    /\ sleeps = MaxRetries - 1
    /\ now - start_time >= (MaxRetries - 1) * retry_delay

\* C27: after send_metrics returned the loop sleeps max(0, interval - elapsed):
\* a cycle shorter than the interval ends its sleep at start_time + interval, a
\* cycle that took the interval or more does not sleep and goes to the loop
\* test at once; the next cycle starts at the time of the loop test.
C27_SleepsRestOfInterval ==
    [][/\ (pc = "returned" /\ pc' # pc) =>
             IF now - start_time >= interval_seconds
             THEN pc' = "loop" /\ now' = now
             ELSE pc' = "cycle_sleep" /\ now' = now
       /\ (pc = "cycle_sleep" /\ pc' # pc) =>
             (pc' = "loop" /\ now' = start_time + interval_seconds)
       /\ StartsCycle => (start_time' = now /\ now' = now)]_vars

\* a cycle that overran the interval is at the loop test without having slept
C27_Witness ==
    /\ pc = "loop"
    /\ running
    /\ result # "None"
    /\ now - start_time > interval_seconds

----------------------------------------------------------------------------
(* Properties of the disk records *)

Filesystems == metrics.disk.filesystems.items

\* no provider call fails and every disk_usage that is made returns or raises
\* an error the disk loop catches
DiskLoopCompletes ==
    /\ pc = "collect_done"
    /\ host.raises = "none"
    /\ \A i \in DOMAIN host.partitions :
          \/ host.partitions[i].fstype \in {"tmpfs", "devtmpfs", "squashfs", "overlay"}
          \/ host.partitions[i].error \in {"none", "PermissionError", "OSError"}

\* C28: in every filesystem record percent_used is used / total * 100 to the
\* nearest hundredth when total > 0, and 0 when total = 0; a filesystem of
\* size 0 has its record and does not make the snapshot an error snapshot.
C28_PercentUsed ==
    DiskLoopCompletes =>
        /\ ~IsRaise(metrics) /\ ~IsErrorSnapshot(metrics)
        /\ \A i \in DOMAIN Filesystems :
              LET fs == Filesystems[i]
                  exact == fs.used_bytes * 10000
                  shown == fs.percent_used * fs.total_bytes
              IN  IF fs.total_bytes > 0
                  THEN 2 * (shown - exact) <= fs.total_bytes
                       /\ 2 * (exact - shown) <= fs.total_bytes
                  ELSE fs.percent_used = 0
        /\ \A i \in DOMAIN host.partitions :
              (host.partitions[i].total = 0 /\ host.partitions[i].fstype = "iso9660")
                  => \E j \in DOMAIN Filesystems :
                        /\ Filesystems[j].mountpoint = host.partitions[i].mountpoint
                        /\ Filesystems[j].percent_used = 0

\* 2/3 of a filesystem used shows as 66.67, next to a filesystem of size 0
C28_Witness ==
    /\ DiskLoopCompletes
    /\ Len(Filesystems) = 2
    /\ Filesystems[1].total_bytes = 3
    /\ Filesystems[1].percent_used = 6667
    /\ Filesystems[2].total_bytes = 0
    /\ Filesystems[2].percent_used = 0

Kept(p) ==
    /\ p.fstype \notin {"tmpfs", "devtmpfs", "squashfs", "overlay"}
    /\ p.error = "none"

\* C29: disk.filesystems holds exactly the enumerated partitions whose type is
\* not tmpfs, devtmpfs, squashfs or overlay and whose usage could be read, in
\* enumeration order; disk_usage is not called for an excluded type, so what it
\* would raise there never shows.
C29_PseudoFilesystemsExcluded ==
    DiskLoopCompletes =>
        /\ ~IsRaise(metrics) /\ ~IsErrorSnapshot(metrics)
        /\ Mountpoints(Filesystems) = Mountpoints(SelectSeq(host.partitions, Kept))
        /\ \A i \in DOMAIN Filesystems :
              Filesystems[i].filesystem_type
                  \notin {"tmpfs", "devtmpfs", "squashfs", "overlay"}

\* a tmpfs whose disk_usage would raise, enumerated before a real filesystem
C29_Witness ==
    /\ DiskLoopCompletes
    /\ Len(host.partitions) = 2
    /\ host.partitions[1].fstype = "tmpfs"
    /\ host.partitions[1].error = "Exception"
    /\ Mountpoints(Filesystems) = <<host.partitions[2].mountpoint>>

----------------------------------------------------------------------------
(* Properties of the start *)

\* the file is missing or lacks endpoint, interval_seconds or thresholds
ConfigurationError ==
    \/ config_file.kind # "mapping"
    \/ ~({"endpoint", "interval_seconds", "thresholds"} \subseteq config_file.sections)

\* C30: with a configuration file that is missing or lacks a required section
\* the constructor ends the process: the loop is never entered, nothing is
\* collected, evaluated or posted, and the process stays ended.
C30_ConfigurationErrorFatal ==
    /\ [](ConfigurationError =>
            /\ pc \in {"init", "exited"}
            /\ config = None
            /\ collects = 0 /\ posts = 0 /\ alertRuns = 0)
    /\ [][/\ (ConfigurationError /\ pc = "init") => pc' = "exited"
          /\ pc = "exited" => pc' = "exited"]_vars

\* the file of test_config_validation: only the endpoint section
C30_Witness ==
    /\ pc = "exited"
    /\ config_file.kind = "mapping"
    /\ config_file.sections = {"endpoint"}
    /\ posts = 0

----------------------------------------------------------------------------
(* Properties of the cooldown registry, continued *)

TriggeredKeys(messages) == {cooldown_key(messages[i]) : i \in DOMAIN messages}

\* C31: the registry only grows and only moves forward: no key leaves it, a
\* key enters it at its first fire with the time of the fire, an entry changes
\* only at a fire of its key, to the time of that fire, and never decreases.
C31_RegistryGrowsForward ==
    [][/\ DOMAIN alert_cooldown \subseteq DOMAIN alert_cooldown'
       /\ \A key \in DOMAIN alert_cooldown' :
             IF key \in DOMAIN alert_cooldown
             THEN /\ alert_cooldown'[key] >= alert_cooldown[key]
                  /\ alert_cooldown'[key] # alert_cooldown[key] =>
                        /\ alert_cooldown'[key] = now
                        /\ key \in TriggeredKeys(alerts_triggered')
                        /\ key \in {cooldown_key(msg) : msg \in dispatched'}
             ELSE /\ alert_cooldown'[key] = now
                  /\ key \in {cooldown_key(msg) : msg \in dispatched'}]_vars

\* three keys in the registry, one of them overwritten by a later fire
C31_Witness ==
    /\ pc = "api"
    /\ Cardinality(DOMAIN alert_cooldown) >= 3
    /\ \E msg \in refired : alert_cooldown[cooldown_key(msg)] = evalAt
    /\ \E key \in DOMAIN alert_cooldown : alert_cooldown[key] < evalAt

\* C36: an alert suppressed by the cooldown changes no entry of the registry
\* and reaches no channel and no log; the window runs from the last dispatch,
\* not from the last evaluation: however often the alert was suppressed in
\* between, it is dispatched again once a window has passed since that dispatch.
C36_SuppressedLeavesNoTrace ==
    [][alertVars' # alertVars =>
        \A i \in DOMAIN alerts_triggered' :
            LET msg == alerts_triggered'[i]
                key == cooldown_key(msg)
            IN  key \in DOMAIN alert_cooldown =>
                    IF now - alert_cooldown[key] < Window
                    THEN /\ key \in DOMAIN alert_cooldown'
                         /\ alert_cooldown'[key] = alert_cooldown[key]
                         /\ msg \notin dispatched'
                         /\ CallsFor(msg, channelCalls') = <<>>
                    ELSE /\ msg \in dispatched'
                         /\ Channels(CallsFor(msg, channelCalls')) = config.channels]_vars

\* one minute after its dispatch the alert was evaluated again and suppressed
C36_Witness ==
    /\ pc = "api"
    /\ config.channels = <<"email", "slack", "log">>
    /\ evalAt = SecondsPerMinute
    /\ \E i \in DOMAIN alerts_triggered :
          /\ alerts_triggered[i] \notin dispatched
          /\ alert_cooldown[cooldown_key(alerts_triggered[i])] = 0
          /\ CallsFor(alerts_triggered[i], channelCalls) = <<>>

\* C38: the keys are independent: an entry of a key that the evaluation did
\* not trigger is left alone, and whether a triggered alert fires depends on
\* its own entry only, whatever happens to the other alerts of the evaluation;
\* two filesystems over the threshold with no entry are both dispatched.
C38_KeysIndependent ==
    [][alertVars' # alertVars =>
        /\ \A key \in DOMAIN alert_cooldown' :
              key \notin TriggeredKeys(alerts_triggered') =>
                  /\ key \in DOMAIN alert_cooldown
                  /\ alert_cooldown'[key] = alert_cooldown[key]
        /\ \A i \in DOMAIN alerts_triggered' :
              LET msg == alerts_triggered'[i]
                  key == cooldown_key(msg)
                  old == IF key \in DOMAIN alert_cooldown
                         THEN alert_cooldown[key] ELSE now - Window
              IN  /\ key \in DOMAIN alert_cooldown'
                  /\ msg \in dispatched' <=> now - old >= Window
                  /\ alert_cooldown'[key] = IF now - old >= Window
                                            THEN now ELSE old]_vars

\* in one evaluation two filesystems were dispatched, and the entry of a key
\* dispatched earlier and not triggered now kept its time
C38_Witness ==
    /\ pc = "api"
    /\ \E m1, m2 \in dispatched :
          m1.family = "disk" /\ m2.family = "disk" /\ m1.target # m2.target
    /\ \E key \in DOMAIN alert_cooldown :
          /\ key \notin TriggeredKeys(alerts_triggered)
          /\ alert_cooldown[key] < evalAt

----------------------------------------------------------------------------
(* Properties of send_metrics, continued *)

\* C32: send_metrics returns True at its first successful POST and stops
\* there: that POST is the call's last, no retry delay follows it, and a sink
\* that accepts the first POST is called exactly once.
C32_StopsAtFirstSuccess ==
    /\ [](result = "True" =>
            /\ pc \in {"returned", "cycle_sleep", "loop", "stopped"}
            /\ lastOutcome = "ok"
            /\ posts = attempt + 1
            /\ sleeps = attempt)
    /\ []((CallDone /\ config.max_retries >= 1 /\ script[1] = "ok") =>
            (result = "True" /\ posts = 1 /\ sleeps = 0))
    /\ [][(pc = "returned" /\ pc' # "for") =>
            (posts' = posts /\ sleeps' = sleeps /\ result' = result)]_vars

\* the sink accepted the first POST of a call that could have made more
C32_Witness ==
    /\ pc = "returned"
    /\ config.max_retries = MaxRetries
    /\ script[1] = "ok"
    /\ result = "True"
    /\ posts = 1
    /\ sleeps = 0

\* C35: a send_metrics call makes at most max_retries POSTs (and as many
\* collections), whatever the sink answers; with max_retries = 0 it posts and
\* collects nothing and returns False.
C35_AtMostMaxRetriesPosts ==
    /\ posts <= config.max_retries
    /\ collects <= config.max_retries
    /\ (config.max_retries = 0 /\ pc = "returned") =>
          (result = "False" /\ posts = 0 /\ collects = 0 /\ sleeps = 0)

C35_Witness ==
    /\ config.max_retries = 0
    /\ pc = "returned"
    /\ result = "False"
    /\ posts = 0
    /\ collects = 0

----------------------------------------------------------------------------
(* C39: with endpoint.url configured, no exception leaves send_metrics:    *)
(* every call of it ends by returning True or False, never by handing an   *)
(* exception to the handler of run.  Every step of the loop body is inside *)
(* the try of line 418; the hostname lookup of line 415 is before it.      *)

C39_SendMetricsAlwaysReturns ==
    [][(pc \in {"for", "alerts", "post", "retry_sleep", "next", "break"}
        /\ pc' # pc)
       => pc' # "pause"]_vars

----------------------------------------------------------------------------
(* C37: with alerts.enabled false a check dispatches nothing, calls no     *)
(* channel and leaves the cooldown registry as it was, whatever the        *)
(* snapshot breaches; and an error snapshot is not checked at all: the     *)
(* registry after it is the registry before it, breaches or not.           *)

----------------------------------------------------------------------------
(* C34: the collection_duration_ms of a snapshot is the time from entry of *)
(* collect_metrics to its return: every acquisition step of the call,      *)
(* the optional network collection included, is inside it.  (The call is   *)
(* entered at time 0 and `now` is the clock when it has returned.)         *)

C34_DurationCoversWholeCall ==
    (pc = "collect_done" /\ ~IsRaise(metrics)) =>
        metrics.collection_duration_ms = 1000 * now

----------------------------------------------------------------------------
(* C33: when the sink answers a POST with a 4xx/5xx status, the error      *)
(* record logged for the attempt has the status of that response in its    *)
(* status_code field.                                                      *)

C33_ErrorLogCarriesStatus ==
    lastOutcome = "HTTPError" =>
        /\ lastLog.level = "error"
        /\ lastLog.status_code = PyInt(response.status_code)

====
